---- MODULE Spec2Model ----
(***************************************************************************)
(* Model of worded_domain_checkr.py: one run of main().                    *)
(*                                                                         *)
(* Strings are sequences of one-character strings, so that strip(),        *)
(* lower(), isalpha(), split(",") and the f-string word+tld are computed   *)
(* character by character.  An optional value (None or a value v) is the   *)
(* sequence <<>> or <<v>>.                                                 *)
(***************************************************************************)
EXTENDS Integers, Sequences, FiniteSets, TLC

VARIABLES
    pc,                 \* position of main(): parse, creds, load, batch, sleep, save, done, exit
    length,             \* args.length      (optional int)
    min_length,         \* args.min_length  (optional int)
    max_length,         \* args.max_length  (optional int)
    tlds_arg,           \* args.tlds        (string, DEFAULT_TLD when --tlds is absent)
    creds_loaded,       \* load_credentials() has read the environment
    api_key,            \* getenv("GODADDY_API_KEY")     (optional string)
    api_secret,         \* getenv("GODADDY_API_SECRET")  (optional string)
    dict_status,        \* what opening args.dict gave: unread, ok, missing, ioerror
    dict_lines,         \* the lines of the dictionary file, as read
    words,              \* main's words
    tlds,               \* main's tlds
    available_domains,  \* main's available_domains: tld -> list of domains
    tld_idx,            \* position of the outer loop in tlds (1-based)
    i,                  \* the inner loop's i
    results,            \* main's results: what check_batch returned last
    exit_status,        \* the process's exit status (optional int)
    output_file,        \* content of OUTPUT_FILE (optional mapping)
    write_attempts,     \* history: calls of save_results
    submitted,          \* history: the batches handed to check_batch, in order
    sleeps,             \* history: the time.sleep calls, in order
    failed,             \* history: loop positions whose API call failed
    reported,           \* history: tld -> domains the API reported available
    n_reported          \* history: number of results the API reported available

vars == <<pc, length, min_length, max_length, tlds_arg, creds_loaded, api_key,
          api_secret, dict_status, dict_lines, words, tlds, available_domains,
          tld_idx, i, results, exit_status, output_file, write_attempts,
          submitted, sleeps, failed, reported, n_reported>>

----------------------------------------------------------------------------
(* Bounds of the model *)

\* largest value given to --length, --min-length, --max-length
MaxArg == 2

\* largest number of lines of a dictionary file of a run
MaxLines == 3

\* largest length argument and number of lines where load_dictionary_words
\* is checked on its own
MaxFilterArg == 3

MaxFilterLines == 3

\* the code's BATCH_SIZE is 70; the model runs the same loop with a small batch
BATCH_SIZE == 2

\* time.sleep(DELAY_SECONDS)
DELAY_SECONDS == 4

----------------------------------------------------------------------------
(* Optional values *)

None == <<>>

Some(v) == <<v>>

IsNone(x) == x = <<>>

Val(x) == x[1]

----------------------------------------------------------------------------
(* Strings *)

Lowercase == {"a", "b", "c", "d", "i"}

Uppercase == {"A", "B", "C", "D"}

\* str.lower() on one character
LowerChar(c) ==
    CASE c = "A" -> "a"
      [] c = "B" -> "b"
      [] c = "C" -> "c"
      [] c = "D" -> "d"
      [] OTHER -> c

\* str.lower()
Lower(s) == [k \in 1..Len(s) |-> LowerChar(s[k])]

IsSpace(c) == c \in {" ", "\n"}

RECURSIVE LStrip(_)
LStrip(s) ==
    IF s # <<>> /\ IsSpace(Head(s)) THEN LStrip(Tail(s)) ELSE s

RECURSIVE RStrip(_)
RStrip(s) ==
    IF s # <<>> /\ IsSpace(s[Len(s)]) THEN RStrip(SubSeq(s, 1, Len(s) - 1)) ELSE s

\* str.strip()
Strip(s) == RStrip(LStrip(s))

\* str.isalpha(): non-empty and every character a letter
IsAlpha(s) == Len(s) > 0 /\ \A k \in 1..Len(s) : s[k] \in Lowercase \cup Uppercase

\* str.split(sep): the pieces between the separators, empty pieces included
RECURSIVE SplitFrom(_, _, _)
SplitFrom(s, sep, cur) ==
    IF s = <<>> THEN <<cur>>
    ELSE IF Head(s) = sep THEN <<cur>> \o SplitFrom(Tail(s), sep, <<>>)
    ELSE SplitFrom(Tail(s), sep, Append(cur, Head(s)))

Split(s, sep) == SplitFrom(s, sep, <<>>)

\* [f(x) for x in seq]
Map(seq, f(_)) == [k \in 1..Len(seq) |-> f(seq[k])]

Range(seq) == {seq[k] : k \in 1..Len(seq)}

Min(a, b) == IF a < b THEN a ELSE b

DEFAULT_TLD == <<".", "c">>

----------------------------------------------------------------------------
(* parse_arguments *)

\* faulty variant of ArgsRejected: the test "--max-length requires --min-length"
\* is missing
ArgsRejected_NoMaxNeedsMin(len, mn, mx) ==
    \/ ~IsNone(len) /\ ~IsNone(mn)
    \/ ~IsNone(len) /\ Val(len) < 1
    \/ ~IsNone(mn) /\ Val(mn) < 1
    \/ ~IsNone(mn) /\ ~IsNone(mx) /\ Val(mx) < Val(mn)
    \/ IsNone(len) /\ IsNone(mn)

\* parser.error(...) of parse_arguments: argparse's mutually exclusive group
\* (--length, --min-length) at parse_args, then the validation that follows it
ArgsRejected(len, mn, mx) ==
    \/ ~IsNone(len) /\ ~IsNone(mn)
    \/ ~IsNone(len) /\ Val(len) < 1
    \/ ~IsNone(mn) /\ Val(mn) < 1
    \/ ~IsNone(mx) /\ IsNone(mn)
    \/ ~IsNone(mn) /\ ~IsNone(mx) /\ Val(mx) < Val(mn)
    \/ IsNone(len) /\ IsNone(mn)

----------------------------------------------------------------------------
(* load_dictionary_words *)

\* words = [line.strip().lower() for line in f if line.strip()]
ReadWords(lines) ==
    Map(SelectSeq(lines, LAMBDA l : Strip(l) # <<>>), LAMBDA l : Lower(Strip(l)))

\* faulty variant of LengthFilter: the minimum is exclusive
LengthFilter_ExclusiveMin(ws, len, mn, mx) ==
    IF ~IsNone(len) THEN SelectSeq(ws, LAMBDA w : Len(w) = Val(len))
    ELSE
        LET a == IF ~IsNone(mn) THEN SelectSeq(ws, LAMBDA w : Len(w) > Val(mn)) ELSE ws
        IN  IF ~IsNone(mx) THEN SelectSeq(a, LAMBDA w : Len(w) <= Val(mx)) ELSE a

\* the length filter
LengthFilter(ws, len, mn, mx) ==
    IF ~IsNone(len) THEN SelectSeq(ws, LAMBDA w : Len(w) = Val(len))
    ELSE
        LET a == IF ~IsNone(mn) THEN SelectSeq(ws, LAMBDA w : Len(w) >= Val(mn)) ELSE ws
        IN  IF ~IsNone(mx) THEN SelectSeq(a, LAMBDA w : Len(w) <= Val(mx)) ELSE a

\* faulty variant of AlphaFilter: no filter
AlphaFilter_None(ws) == ws

\* words = [w for w in words if w.isalpha()]
AlphaFilter(ws) == SelectSeq(ws, IsAlpha)

load_dictionary_words(lines, len, mn, mx) ==
    AlphaFilter(LengthFilter(ReadWords(lines), len, mn, mx))

----------------------------------------------------------------------------
(* main: the TLD list, the batches, the result loop *)

\* tlds = [tld.strip() for tld in args.tlds.split(",") if tld.strip()]
ParseTlds(arg) ==
    Map(SelectSeq(Split(arg, ","), LAMBDA p : Strip(p) # <<>>), Strip)

\* f"{word}{tld}"
Candidate(word, tld) == word \o tld

\* faulty variant of Batch: the slice is one word short
Batch_OneShort(ws, off, tld) ==
    Map(SubSeq(ws, off + 1, Min(off + BATCH_SIZE - 1, Len(ws))),
        LAMBDA w : Candidate(w, tld))

\* batch = [f"{word}{tld}" for word in words[i:i + BATCH_SIZE]]
Batch(ws, off, tld) ==
    Map(SubSeq(ws, off + 1, Min(off + BATCH_SIZE, Len(ws))), LAMBDA w : Candidate(w, tld))

\* one element of the "domains" list of a response
Result(d, a) == [domain |-> d, available |-> a]

\* faulty variant of check_batch: the body of an error response is returned
check_batch_IgnoresError(outcome) == outcome.body

\* DomainChecker.check_batch: the response's list, or [] when requests.post or
\* raise_for_status raised
check_batch(outcome) ==
    IF outcome.status = "ok" THEN outcome.body ELSE <<>>

\* faulty variant of AvailableOf: "available" is not tested
AvailableOf_All(res) == Map(res, LAMBDA r : r.domain)

\* the loop over results: the domains of the results whose "available" is true
AvailableOf(res) ==
    Map(SelectSeq(res, LAMBDA r : r.available), LAMBDA r : r.domain)

\* faulty variant of Collect: the domains are appended under every suffix
Collect_EveryKey(avail, tld, res) ==
    [t \in DOMAIN avail |-> avail[t] \o Map(SelectSeq(res, LAMBDA r : r.available),
                                             LAMBDA r : r.domain)]

\* available_domains[tld].append(domain) for each available result
Collect(avail, tld, res) ==
    [avail EXCEPT ![tld] = @ \o AvailableOf(res)]

\* faulty variant of SleepsAfter: <= for <
SleepsAfter_OffByOne(off, ws) == off + BATCH_SIZE <= Len(ws)

\* if i + BATCH_SIZE < len(words): time.sleep(DELAY_SECONDS)
SleepsAfter(off, ws) == off + BATCH_SIZE < Len(ws)

----------------------------------------------------------------------------
(* The environment: command lines, credentials, files, API responses *)

LengthArgs(max) == {None} \cup {Some(n) : n \in 0..max}

\* values of --tlds: ".c" (the default), ".c,.i", ".c,.c", " .i ," and ","
TldArgs ==
    { DEFAULT_TLD,
      <<".", "c", ",", ".", "i">>,
      <<".", "c", ",", ".", "c">>,
      <<" ", ".", "i", " ", ",">>,
      <<",">> }

\* getenv: unset, empty or set
EnvValues == {None, Some(<<>>), Some(<<"k">>)}

\* lines of the dictionary files of a run: "a", " Cd", "b1"
RunLines ==
    { <<"a", "\n">>, <<" ", "C", "d", "\n">>, <<"b", "1", "\n">> }

RECURSIVE SeqsUpTo(_, _)
SeqsUpTo(S, n) ==
    IF n = 0 THEN {<<>>}
    ELSE LET shorter == SeqsUpTo(S, n - 1)
         IN  shorter \cup {Append(q, x) : q \in shorter, x \in S}

RunFiles == SeqsUpTo(RunLines, MaxLines)

\* a domain that is no candidate of any run
ForeignDomain == <<"z", ".", "c">>

\* response bodies to a batch: nothing, the first candidate available or taken,
\* a domain that was not asked for, the last candidate taken next to the first
\* one available
Bodies(batch) ==
    { <<>>,
      <<Result(batch[1], TRUE)>>,
      <<Result(batch[1], FALSE)>>,
      <<Result(ForeignDomain, TRUE)>> }
    \cup (IF Len(batch) > 1
          THEN {<<Result(batch[Len(batch)], FALSE), Result(batch[1], TRUE)>>}
          ELSE {})

\* what requests.post and raise_for_status do: a response, or a
\* RequestException (no response at all, or an HTTP error status with a body)
ApiOutcomes(batch) ==
    {[status |-> "ok", body |-> b] : b \in Bodies(batch)}
    \cup {[status |-> "error", body |-> b] : b \in {<<>>, <<Result(batch[1], TRUE)>>}}

EmptyMap == [t \in {} |-> <<>>]

\* what a response body says: the positions of the results it reports as
\* available, and their domains
ReportedPositions(body) == {n \in 1..Len(body) : body[n].available}

ReportedDomains(body) == {body[n].domain : n \in ReportedPositions(body)}

----------------------------------------------------------------------------
(* The run *)

\* main has read no file and called nothing
InitRun ==
    /\ dict_status = "unread"
    /\ dict_lines = <<>>
    /\ words = <<>>
    /\ tlds = <<>>
    /\ available_domains = EmptyMap
    /\ tld_idx = 0
    /\ i = 0
    /\ results = <<>>
    /\ exit_status = None
    /\ output_file = None
    /\ write_attempts = 0
    /\ submitted = <<>>
    /\ sleeps = <<>>
    /\ failed = {}
    /\ reported = EmptyMap
    /\ n_reported = 0

Init ==
    /\ pc = "parse"
    /\ length \in LengthArgs(MaxArg)
    /\ min_length \in LengthArgs(MaxArg)
    /\ max_length \in LengthArgs(MaxArg)
    /\ tlds_arg \in TldArgs
    /\ creds_loaded = FALSE
    /\ api_key = None
    /\ api_secret = None
    /\ InitRun

\* sys.exit(status), or parser.error
Exit(status) ==
    /\ pc' = "exit"
    /\ exit_status' = Some(status)

\* args = parse_arguments()
ParseArguments ==
    /\ pc = "parse"
    /\ IF ArgsRejected(length, min_length, max_length)
       THEN Exit(2)
       ELSE pc' = "creds" /\ UNCHANGED exit_status
    /\ UNCHANGED <<length, min_length, max_length, tlds_arg, creds_loaded, api_key,
                   api_secret, dict_status, dict_lines, words, tlds,
                   available_domains, tld_idx, i, results, output_file,
                   write_attempts, submitted, sleeps, failed, reported, n_reported>>

\* if not api_key or not api_secret
CredentialsMissing(key, secret) ==
    \/ IsNone(key) \/ Val(key) = <<>>
    \/ IsNone(secret) \/ Val(secret) = <<>>

\* api_key, api_secret = load_credentials()
LoadCredentials ==
    /\ pc = "creds"
    /\ \E key \in EnvValues, secret \in EnvValues :
          /\ api_key' = key
          /\ api_secret' = secret
          /\ IF CredentialsMissing(key, secret)
             THEN Exit(1)
             ELSE pc' = "load" /\ UNCHANGED exit_status
    /\ creds_loaded' = TRUE
    /\ UNCHANGED <<length, min_length, max_length, tlds_arg, dict_status,
                   dict_lines, words, tlds, available_domains, tld_idx, i, results,
                   output_file, write_attempts, submitted, sleeps, failed,
                   reported, n_reported>>

\* faulty variant of NoWords: the test is missing
NoWords_Never(ws) == FALSE

\* if not words
NoWords(ws) == ws = <<>>

\* where the loops start: the first batch of the first tld, or save_results
\* when there is no tld
EnterLoop(ts) ==
    IF ts = <<>>
    THEN pc' = "save" /\ tld_idx' = 0
    ELSE pc' = "batch" /\ tld_idx' = 1

\* the tld list, load_dictionary_words, the empty check and the creation of
\* available_domains; files is what the dictionary path may hold
LoadDictionary(files) ==
    /\ pc = "load"
    /\ tlds' = ParseTlds(tlds_arg)
    /\ \E status \in {"ok", "missing", "ioerror"} :
          /\ dict_status' = status
          /\ IF status = "ok"
             THEN \E lines \in files :
                     /\ dict_lines' = lines
                     /\ words' = load_dictionary_words(lines, length, min_length, max_length)
                     /\ IF NoWords(words')
                        THEN /\ Exit(1)
                             /\ UNCHANGED <<available_domains, reported, tld_idx>>
                        ELSE /\ available_domains' = [t \in Range(tlds') |-> <<>>]
                             /\ reported' = [t \in Range(tlds') |-> {}]
                             /\ EnterLoop(tlds')
                             /\ UNCHANGED exit_status
             ELSE /\ Exit(1)
                  /\ UNCHANGED <<dict_lines, words, available_domains, reported, tld_idx>>
    /\ UNCHANGED <<length, min_length, max_length, tlds_arg, creds_loaded, api_key,
                   api_secret, i, results, output_file, write_attempts, submitted,
                   sleeps, failed, n_reported>>

\* after the last batch of a tld: the next tld, or save_results
NextTld ==
    IF tld_idx < Len(tlds)
    THEN pc' = "batch" /\ tld_idx' = tld_idx + 1 /\ i' = 0
    ELSE pc' = "save" /\ UNCHANGED <<tld_idx, i>>

\* one iteration of the inner loop up to the rate-limiting test
CheckBatch ==
    /\ pc = "batch"
    /\ LET tld == tlds[tld_idx]
           batch == Batch(words, i, tld)
       IN  \E outcome \in ApiOutcomes(batch) :
              /\ submitted' = Append(submitted, [k |-> tld_idx, off |-> i, batch |-> batch])
              /\ results' = check_batch(outcome)
              /\ available_domains' = Collect(available_domains, tld, results')
              /\ failed' = IF outcome.status = "ok" THEN failed
                           ELSE failed \cup {<<tld_idx, i>>}
              /\ reported' = IF outcome.status = "ok"
                             THEN [reported EXCEPT ![tld] = @ \cup ReportedDomains(outcome.body)]
                             ELSE reported
              /\ n_reported' = IF outcome.status = "ok"
                               THEN n_reported + Cardinality(ReportedPositions(outcome.body))
                               ELSE n_reported
    /\ IF SleepsAfter(i, words)
       THEN pc' = "sleep" /\ UNCHANGED <<tld_idx, i>>
       ELSE NextTld
    /\ UNCHANGED <<length, min_length, max_length, tlds_arg, creds_loaded, api_key,
                   api_secret, dict_status, dict_lines, words, tlds, exit_status,
                   output_file, write_attempts, sleeps>>

\* time.sleep(DELAY_SECONDS), then the next i of range(0, len(words), BATCH_SIZE)
Sleep ==
    /\ pc = "sleep"
    /\ sleeps' = Append(sleeps, [k |-> tld_idx, off |-> i, seconds |-> DELAY_SECONDS])
    /\ i' = i + BATCH_SIZE
    /\ pc' = "batch"
    /\ UNCHANGED <<length, min_length, max_length, tlds_arg, creds_loaded, api_key,
                   api_secret, dict_status, dict_lines, words, tlds,
                   available_domains, tld_idx, results, exit_status, output_file,
                   write_attempts, submitted, failed, reported, n_reported>>

\* save_results: the file holds the mapping, or the IOError is logged
save_results(mapping, written, file) ==
    IF written THEN Some(mapping) ELSE file

\* faulty variant of SaveOutcome: the IOError is not caught
SaveOutcome_Raises(written) == IF written THEN "returned" ELSE "raised"

\* how save_results ends: it returns, also when the write raised IOError
\* (except IOError: logger.error)
SaveOutcome(written) == "returned"

\* save_results(available_domains, Path(OUTPUT_FILE)), the summary, the return
SaveResults ==
    /\ pc = "save"
    /\ \E written \in BOOLEAN :
          /\ output_file' = save_results(available_domains, written, output_file)
          /\ IF SaveOutcome(written) = "returned"
             THEN pc' = "done" /\ exit_status' = Some(0)
             ELSE Exit(1)
    /\ write_attempts' = write_attempts + 1
    /\ UNCHANGED <<length, min_length, max_length, tlds_arg, creds_loaded, api_key,
                   api_secret, dict_status, dict_lines, words, tlds,
                   available_domains, tld_idx, i, results, submitted, sleeps,
                   failed, reported, n_reported>>

LoadRunDictionary == LoadDictionary(RunFiles)

Next ==
    \/ ParseArguments
    \/ LoadCredentials
    \/ LoadRunDictionary
    \/ CheckBatch
    \/ Sleep
    \/ SaveResults

Spec == Init /\ [][Next]_vars

\* every blocking call of the run returns (the API call after at most its
\* 30 second timeout, time.sleep after DELAY_SECONDS)
FairSpec == Spec /\ WF_vars(Next)

----------------------------------------------------------------------------
(* load_dictionary_words on its own: main stands before the call, with       *)
(* arguments parse_arguments accepted and both credentials read, and the     *)
(* dictionary is drawn from a larger set of files.                           *)

\* lines "ab", "abc", "abcd", "Abc", "a1c", " ab " and an empty line
FilterLines ==
    { <<"a", "b", "\n">>,
      <<"a", "b", "c", "\n">>,
      <<"a", "b", "c", "d", "\n">>,
      <<"A", "b", "c", "\n">>,
      <<"a", "1", "c", "\n">>,
      <<" ", "a", "b", " ", "\n">>,
      <<"\n">> }

FilterFiles == SeqsUpTo(FilterLines, MaxFilterLines)

InitFilter ==
    /\ pc = "load"
    /\ length \in LengthArgs(MaxFilterArg)
    /\ min_length \in LengthArgs(MaxFilterArg)
    /\ max_length \in LengthArgs(MaxFilterArg)
    /\ ~ArgsRejected(length, min_length, max_length)
    /\ tlds_arg = DEFAULT_TLD
    /\ InitRun
    /\ creds_loaded = TRUE
    /\ api_key = Some(<<"k">>)
    /\ api_secret = Some(<<"k">>)

LoadFilterDictionary == LoadDictionary(FilterFiles)

NextFilter == LoadFilterDictionary

SpecFilter == InitFilter /\ [][NextFilter]_vars

----------------------------------------------------------------------------
(* Notions the properties are stated with *)

\* the mapping exists: from its creation (line 190) on
MappingCreated == pc \in {"batch", "sleep", "save", "done"}

\* both loops are over
LoopsDone == pc \in {"save", "done"}

RECURSIVE Flatten(_)
Flatten(subs) ==
    IF subs = <<>> THEN <<>> ELSE Head(subs).batch \o Flatten(Tail(subs))

\* the batches submitted while the outer loop stood at entry k of tlds
PassBatches(k) == SelectSeq(submitted, LAMBDA s : s.k = k)

\* the batches submitted for the suffix string t
SuffixBatches(t) == SelectSeq(submitted, LAMBDA s : tlds[s.k] = t)

\* the filtered word list with the suffix appended to each word
Candidates(t) == Map(words, LAMBDA w : Candidate(w, t))

\* entry k of tlds has been processed to its end
PassDone(k) == LoopsDone \/ (pc \in {"batch", "sleep"} /\ tld_idx > k)

RECURSIVE SumLen(_, _)
SumLen(f, S) ==
    IF S = {} THEN 0
    ELSE LET t == CHOOSE x \in S : TRUE
         IN  Len(f[t]) + SumLen(f, S \ {t})

----------------------------------------------------------------------------
(* C1 *)

\* C1 as stated: for every requested suffix, the batches submitted for that
\* suffix, concatenated in submission order, are the filtered word list with
\* the suffix appended (nothing dropped, nothing repeated), and no batch holds
\* more than BATCH_SIZE candidates.
C1_PerSuffixOnce ==
    LoopsDone =>
        /\ \A t \in Range(tlds) : Flatten(SuffixBatches(t)) = Candidates(t)
        /\ \A n \in 1..Len(submitted) : Len(submitted[n].batch) <= BATCH_SIZE

\* C1, amended: for every entry of the requested suffix list (a suffix listed
\* twice is processed twice), the batches submitted during that entry's pass,
\* concatenated in submission order, are a prefix of the filtered word list
\* with the suffix appended, and the whole of it once the pass is over; no
\* submitted batch holds more than BATCH_SIZE candidates.
C1_PerEntryOnce ==
    /\ \A n \in 1..Len(submitted) : Len(submitted[n].batch) <= BATCH_SIZE
    /\ \A k \in 1..Len(tlds) :
          LET got == Flatten(PassBatches(k))
              all == Candidates(tlds[k])
          IN  /\ Len(got) <= Len(all)
              /\ got = SubSeq(all, 1, Len(got))
              /\ PassDone(k) => got = all

\* a finished run over a suffix listed twice, each pass with two batches
C1_Witness ==
    /\ pc = "done"
    /\ Len(tlds) = 2
    /\ tlds[1] = tlds[2]
    /\ Len(PassBatches(1)) = 2
    /\ Len(PassBatches(2)) = 2

----------------------------------------------------------------------------
(* C2 *)

\* C2: while the mapping exists, its keys are exactly the requested suffixes,
\* every domain in its lists was reported available by some response, and the
\* lists hold as many domains as there were results reported available, so a
\* result reported as not available added nothing.
C2_OnlyReportedAvailable ==
    MappingCreated =>
        /\ DOMAIN available_domains = Range(ParseTlds(tlds_arg))
        /\ \A t \in DOMAIN available_domains :
              \A d \in Range(available_domains[t]) :
                  \E u \in DOMAIN reported : d \in reported[u]
        /\ SumLen(available_domains, DOMAIN available_domains) = n_reported

\* a response named one candidate as taken next to another one as available,
\* and the mapping holds the second and not the first
C2_Witness ==
    /\ MappingCreated
    /\ Len(results) = 2
    /\ ~results[1].available
    /\ results[2].available
    /\ results[1].domain # results[2].domain
    /\ \E t \in DOMAIN available_domains :
          /\ results[2].domain \in Range(available_domains[t])
          /\ \A u \in DOMAIN available_domains :
                results[1].domain \notin Range(available_domains[u])

----------------------------------------------------------------------------
(* C3 *)

\* the loop positions (entry of tlds, offset) in lexicographic order
Before(a, b) == a.k < b.k \/ (a.k = b.k /\ a.off < b.off)

\* every position of the two loops
AllPositions ==
    {<<k, off>> : k \in 1..Len(tlds),
                  off \in {o \in 0..(Len(words) - 1) : o % BATCH_SIZE = 0}}

\* C3 (state part): after a failed API call check_batch has returned the
\* empty list; a batch (a position of the loops) is submitted at most once,
\* in loop order; and once the loops are over every batch of every suffix has
\* been submitted, whatever calls failed.
C3_State ==
    /\ (submitted # <<>> /\
        <<submitted[Len(submitted)].k, submitted[Len(submitted)].off>> \in failed)
           => results = <<>>
    /\ \A m, n \in 1..Len(submitted) : m < n => Before(submitted[m], submitted[n])
    /\ LoopsDone =>
          {<<submitted[n].k, submitted[n].off>> : n \in 1..Len(submitted)} = AllPositions

\* C3 (step part): the step in which an API call fails leaves the mapping
\* as it was and does not end the process.
C3_Step ==
    (failed' # failed) =>
        /\ results' = <<>>
        /\ available_domains' = available_domains
        /\ pc' \in {"batch", "sleep", "save"}
        /\ exit_status' = None

\* C3: a failed API call is not fatal: check_batch returns the empty list,
\* the batch adds nothing to the mapping, it is not submitted again, and the
\* loop goes on to submit every remaining batch.
C3_FailureNotFatal == [](C3_State) /\ [][C3_Step]_vars

\* the first call of a run failed, and the run went on through the three
\* remaining batches to its end
C3_Witness ==
    /\ pc = "done"
    /\ <<1, 0>> \in failed
    /\ Len(submitted) = 4

----------------------------------------------------------------------------
(* C4 *)

\* C4: if no word of the dictionary survives filtering, the process ends with
\* exit status 1, before any batch is submitted, and the output file is
\* neither written nor attempted.
C4_NoWordsIsFatal ==
    (dict_status = "ok" /\ words = <<>>) =>
        /\ pc = "exit"
        /\ exit_status = Some(1)
        /\ submitted = <<>>
        /\ write_attempts = 0
        /\ output_file = None

\* a dictionary with lines, none of which survived
C4_Witness ==
    /\ dict_status = "ok"
    /\ dict_lines # <<>>
    /\ words = <<>>
    /\ pc = "exit"

----------------------------------------------------------------------------
(* C5 *)

\* valid arguments, both credentials, a readable dictionary, a surviving word
C5_Pre ==
    /\ ~ArgsRejected(length, min_length, max_length)
    /\ creds_loaded
    /\ ~CredentialsMissing(api_key, api_secret)
    /\ dict_status = "ok"
    /\ words # <<>>

\* C5: with valid arguments, both credentials, a readable dictionary and a
\* surviving word, the run never calls save_results twice and eventually
\* stands at its end with one call of save_results and exit status 0,
\* whatever the API calls and the write did.
C5_WritesOnceExitsZero ==
    /\ [](C5_Pre => write_attempts <= 1)
    /\ [](C5_Pre => <>(pc = "done" /\ exit_status = Some(0) /\ write_attempts = 1))
    /\ []((C5_Pre /\ write_attempts = 1) => (pc = "done" /\ exit_status = Some(0)))

\* a run whose API call failed and whose write failed ended with status 0
C5_Witness ==
    /\ C5_Pre
    /\ pc = "done"
    /\ exit_status = Some(0)
    /\ write_attempts = 1
    /\ output_file = None
    /\ failed # {}

----------------------------------------------------------------------------
(* C6 *)

\* the batches whose iteration is over: all submitted ones, but the one the
\* loop is about to sleep after
Completed ==
    IF pc = "sleep" THEN SubSeq(submitted, 1, Len(submitted) - 1) ELSE submitted

\* the batch is the last one of its pass over the word list
LastOfPass(s) == s.off + Len(s.batch) >= Len(words)

PassSleeps(k) == SelectSeq(sleeps, LAMBDA p : p.k = k)

SuffixSleeps(t) == SelectSeq(sleeps, LAMBDA p : tlds[p.k] = t)

\* C6 as stated: a suffix with n batches causes exactly n-1 pauses.
C6_PausesPerSuffix ==
    LoopsDone =>
        \A t \in Range(tlds) : Len(SuffixSleeps(t)) = Len(SuffixBatches(t)) - 1

\* C6, amended: in each pass over the word list (one per entry of the suffix
\* list, so that a suffix listed twice has two passes) the loop pauses for
\* DELAY_SECONDS after every batch but the last of the pass, whether the call
\* failed or not: the pauses are, in order, exactly the completed batches that
\* are not the last of their pass, and a pass of n batches has n-1 pauses.
C6_PausesPerEntry ==
    /\ sleeps = Map(SelectSeq(Completed, LAMBDA s : ~LastOfPass(s)),
                    LAMBDA s : [k |-> s.k, off |-> s.off, seconds |-> DELAY_SECONDS])
    /\ \A k \in 1..Len(tlds) :
          PassDone(k) => Len(PassSleeps(k)) = Len(PassBatches(k)) - 1

\* two suffixes, two batches each, the first call failed: one pause in each
\* pass, the first after the failed call, none between the passes
C6_Witness ==
    /\ pc = "done"
    /\ Len(tlds) = 2
    /\ Len(submitted) = 4
    /\ <<1, 0>> \in failed
    /\ Len(sleeps) = 2
    /\ sleeps[1].k = 1
    /\ sleeps[2].k = 2

----------------------------------------------------------------------------
(* C7 *)

\* the length constraint the arguments state
SatisfiesLength(w) ==
    IF ~IsNone(length) THEN Len(w) = Val(length)
    ELSE /\ IsNone(min_length) \/ Len(w) >= Val(min_length)
         /\ IsNone(max_length) \/ Len(w) <= Val(max_length)

\* the words of the dictionary: its lines without surrounding white space, in
\* lower case, empty lines left out
DictionaryWords == Range(ReadWords(dict_lines))

ExampleFile ==
    << <<"a", "b", "\n">>, <<"a", "b", "c", "\n">>, <<"a", "b", "c", "d", "\n">> >>

\* C7: every word load_dictionary_words returns satisfies the length
\* constraint of the arguments (exactly L, or within [min, max]), no
\* alphabetic dictionary word that satisfies it is left out, and the
\* dictionary ["ab", "abc", "abcd"] with length 3 gives exactly ["abc"].
C7_LengthFilter ==
    dict_status = "ok" =>
        /\ \A w \in Range(words) : SatisfiesLength(w)
        /\ \A w \in DictionaryWords :
              (SatisfiesLength(w) /\ IsAlpha(w)) => w \in Range(words)
        /\ (dict_lines = ExampleFile /\ length = Some(3)) => words = << <<"a", "b", "c">> >>

\* the example of the specification has been loaded
C7_Witness ==
    /\ dict_status = "ok"
    /\ dict_lines = ExampleFile
    /\ length = Some(3)
    /\ words = << <<"a", "b", "c">> >>

----------------------------------------------------------------------------
(* C8 *)

\* the candidate without the suffix of its pass
WordOf(s, n) == SubSeq(s.batch[n], 1, Len(s.batch[n]) - Len(tlds[s.k]))

\* C8: no dictionary word with a non-alphabetic character is in the filtered
\* list, under either filter, and every candidate submitted to the API is a
\* purely alphabetic word followed by the suffix.
C8_OnlyAlphabetic ==
    /\ \A w \in Range(words) : IsAlpha(w)
    /\ dict_status = "ok" =>
          \A w \in DictionaryWords : ~IsAlpha(w) => w \notin Range(words)
    /\ \A m \in 1..Len(submitted) :
          \A n \in 1..Len(submitted[m].batch) : IsAlpha(WordOf(submitted[m], n))

\* under the min/max filter, a dictionary with a non-alphabetic word whose
\* length fits has been loaded and a batch has been submitted
C8_Witness ==
    /\ ~IsNone(min_length)
    /\ ~IsNone(max_length)
    /\ dict_status = "ok"
    /\ \E w \in DictionaryWords : ~IsAlpha(w) /\ SatisfiesLength(w)
    /\ submitted # <<>>

----------------------------------------------------------------------------
(* C9 *)

\* the invalid combinations, as the interface states them
ArgsInvalid ==
    \/ ~IsNone(length) /\ ~IsNone(min_length)
    \/ ~IsNone(length) /\ ~IsNone(max_length)
    \/ ~IsNone(max_length) /\ IsNone(min_length)
    \/ ~IsNone(max_length) /\ ~IsNone(min_length) /\ Val(max_length) < Val(min_length)
    \/ ~IsNone(length) /\ Val(length) < 1
    \/ ~IsNone(min_length) /\ Val(min_length) < 1
    \/ IsNone(length) /\ IsNone(min_length)

\* C9: with an invalid argument combination the run never gets past
\* parse_arguments: it ends there with the exit status of parser.error, and
\* no credential is loaded, no dictionary read, no batch submitted and no
\* output written.
C9_InvalidArgsFatal ==
    ArgsInvalid =>
        /\ pc \in {"parse", "exit"}
        /\ pc = "exit" => exit_status = Some(2)
        /\ ~creds_loaded
        /\ dict_status = "unread"
        /\ submitted = <<>>
        /\ write_attempts = 0
        /\ output_file = None

\* an exact length given together with a max length, both at least 1, has
\* ended the process
C9_Witness ==
    /\ pc = "exit"
    /\ exit_status = Some(2)
    /\ ~IsNone(length) /\ Val(length) >= 1
    /\ ~IsNone(max_length) /\ Val(max_length) >= 1
    /\ IsNone(min_length)

----------------------------------------------------------------------------
(* C10 *)

\* the candidates submitted for the suffix string t
SubmittedFor(t) ==
    UNION {Range(submitted[n].batch) : n \in {m \in 1..Len(submitted) : tlds[submitted[m].k] = t}}

\* C10 as stated: every domain stored under t is a candidate submitted for t.
C10_OnlySubmitted ==
    MappingCreated =>
        \A t \in DOMAIN available_domains :
            \A d \in Range(available_domains[t]) : d \in SubmittedFor(t)

\* C10, amended: every domain stored under t is a domain string that the
\* response to a batch submitted for t reported as available; it is a
\* candidate submitted for t only if the API named no other domain.
C10_OnlyReportedForSuffix ==
    MappingCreated =>
        \A t \in DOMAIN available_domains :
            \A d \in Range(available_domains[t]) : d \in reported[t]

\* a response named a domain that was not submitted, and the mapping holds it
C10_Witness ==
    /\ MappingCreated
    /\ Len(tlds) = 2
    /\ tlds[1] # tlds[2]
    /\ \E t \in DOMAIN available_domains :
          \E d \in Range(available_domains[t]) :
              d \notin SubmittedFor(t) /\ d \in reported[t]

====
